---- MODULE Spec2Model ----
(***************************************************************************)
(* CareerGraph: the three-stage roadmap pipeline of                        *)
(* careergraph/agents/graph.py (validation -> research -> structure), the  *)
(* router should_continue, the compiled graph's conditional edges and the  *)
(* discovery calls of careergraph/utils/search.py that research_agent      *)
(* makes.                                                                  *)
(*                                                                         *)
(* Python values are encoded as strings: PyTrue, PyFalse and PyNone are    *)
(* the three singletons, "int:0"/"int:1" are numbers, "" and "str:yes" are *)
(* strings.  A JSON object (a dict) is a function whose DOMAIN is the set  *)
(* of keys it has, so that an absent key differs from a key holding None.  *)
(***************************************************************************)
EXTENDS Naturals, Integers, Sequences, FiniteSets, TLC

VARIABLES
    state,      \* the AgentState held by the graph's channels
    pc,         \* the graph node to run next: a stage, "end", or "raised"
    env,        \* the process environment read by create_llm / research_agent
    invoked,    \* history: the stage functions invoked so far, in order
    seen,       \* history: the completion each stage received from llm.invoke
    outcome,    \* history: how each stage's call ended
    discovery,  \* history: the provider responses and the discovery calls of
                \* research_agent
    http,       \* the status create_roadmap answered with (0: not yet)
    content,    \* the argument of an extract_json call
    extracted,  \* what that call returned
    search_tool, \* a SerperSearchTool instance
    searches,   \* the calls made on it so far, each with its outcome
    requests,   \* the generate_roadmap calls in progress in the server, each
                \* with its own state and its position in its graph
    exports,    \* the export_roadmap requests, each with what its response
                \* has delivered so far
    tmp         \* the files of /tmp, by name

vars == <<state, pc, env, invoked, seen, outcome, discovery, http,
          content, extracted, search_tool, searches, requests, exports, tmp>>

----------------------------------------------------------------------------
(* Python values                                                           *)

PyTrue == "True"
PyFalse == "False"
PyNone == "None"

\* The values json.loads can put under a key of a parsed object.
JsonScalars == {PyTrue, PyFalse, PyNone, "int:0", "int:1", "", "str:yes"}

\* bool(v): False, None, 0 and the empty string are falsy.
Truthy(v) == v \notin {PyFalse, PyNone, "int:0", ""}

\* dict.get(key, default)
Get(obj, key, default) == IF key \in DOMAIN obj THEN obj[key] ELSE default

\* obj[key] = value on a dict (adds the key when it is absent)
Put(obj, key, value) ==
    [k \in DOMAIN obj \cup {key} |-> IF k = key THEN value ELSE obj[k]]

EmptyDict == [k \in {} |-> PyNone]

Min(a, b) == IF a <= b THEN a ELSE b

Stages == {"validation", "research", "structure"}

----------------------------------------------------------------------------
(* Completions: what llm.invoke returns, by what json.loads(extract_json(  *)
(* content)) makes of it.  shape "prose": no JSON, json.loads raises       *)
(* JSONDecodeError; "array"/"scalar": valid JSON that is no object, so the *)
(* first .get on it raises AttributeError; "object": a dict, in value.     *)

NoCompletion == [shape |-> "none", value |-> EmptyDict]
Prose == [shape |-> "prose", value |-> EmptyDict]
\* value is only ever stored, never read as a dict, for these two; it is
\* encoded as a one-key function so that it still differs from {}.
JsonArray == [shape |-> "array", value |-> [nonobject |-> "list"]]
JsonScalar == [shape |-> "scalar", value |-> [nonobject |-> "scalar"]]
JsonObject(obj) == [shape |-> "object", value |-> obj]

\* The try block's json.loads(extract_json(response.content)) raises.
LoadsRaises(c) == c.shape = "prose"
\* The parsed value has no .get (it is a list, a number, a string, null).
NotADict(c) == c.shape \in {"array", "scalar"}

----------------------------------------------------------------------------
(* extract_json (lines 14-26).  A text is a sequence of tokens: Fence is   *)
(* three backticks, Tag the letters json, Space one whitespace character,  *)
(* Open and Close the two braces, Quote a double quote, Key a quoted key   *)
(* with its colon, Other any run of other characters.                      *)

Fence == "fence"
Tag == "json"
Space == " "
Open == "{"
Close == "}"
Quote == "dq"
Key == "key:"
Other == "1"

NoMatch == [found |-> FALSE, from |-> 0, to |-> 0]

\* The optional tag, then the whitespace run: both are greedy and what
\* follows them cannot start with what they skip, so where they end is
\* determined.
SkipTag(text, i) == IF i <= Len(text) /\ text[i] = Tag THEN i + 1 ELSE i

RECURSIVE SkipSpace(_, _)
SkipSpace(text, i) ==
    IF i <= Len(text) /\ text[i] = Space THEN SkipSpace(text, i + 1) ELSE i

\* A closing brace at q, whitespace, a fence.
ClosesBeforeFence(text, q) ==
    /\ text[q] = Close
    /\ LET f == SkipSpace(text, q + 1) IN f <= Len(text) /\ text[f] = Fence

\* The first pattern (line 17) matched from position s.
FencedFrom(text, s) ==
    LET open == SkipSpace(text, SkipTag(text, s + 1))
        ends == {q \in (open + 1)..Len(text) : ClosesBeforeFence(text, q)}
    IN  IF text[s] = Fence /\ open <= Len(text) /\ text[open] = Open /\ ends # {}
        THEN [found |-> TRUE, from |-> open,
              to |-> CHOOSE q \in ends : \A r \in ends : q <= r]   \* lazy
        ELSE NoMatch

\* re.search: the match from the leftmost position that has one; group(1)
fenced_search(text) ==
    LET starts == {s \in 1..Len(text) : FencedFrom(text, s).found}
    IN  IF starts = {} THEN NoMatch
        ELSE FencedFrom(text, CHOOSE s \in starts : \A r \in starts : s <= r)

\* The second pattern (line 22): first brace to last closing brace.
brace_search(text) ==
    LET opens == {i \in 1..Len(text) : text[i] = Open}
        first == CHOOSE i \in opens : \A j \in opens : i <= j
        closes == {j \in 1..Len(text) : text[j] = Close /\ j > first}
    IN  IF opens = {} \/ closes = {} THEN NoMatch
        ELSE [found |-> TRUE, from |-> first,
              to |-> CHOOSE j \in closes : \A k \in closes : j >= k]   \* greedy

\* An extractor whose second pattern would stop at the first closing brace.
extract_json_first_close(text) ==
    LET m == brace_search(text)
        closes == {j \in 1..Len(text) : text[j] = Close /\ j > m.from}
    IN  IF fenced_search(text).found
        THEN SubSeq(text, fenced_search(text).from, fenced_search(text).to)
        ELSE IF m.found
        THEN SubSeq(text, m.from, CHOOSE j \in closes : \A k \in closes : j <= k)
        ELSE text

extract_json(text) ==
    IF fenced_search(text).found
    THEN SubSeq(text, fenced_search(text).from, fenced_search(text).to)
    ELSE IF brace_search(text).found
    THEN SubSeq(text, brace_search(text).from, brace_search(text).to)
    ELSE text

----------------------------------------------------------------------------
(* AgentState and the graph's channel merge                                *)

\* generate_roadmap's initial_state
InitialState(query) ==
    [ query              |-> query,
      is_valid           |-> PyFalse,
      validation_message |-> "",
      research_data      |-> <<>>,
      roadmap_structure  |-> EmptyDict,
      nodes              |-> <<>>,
      current_agent      |-> "",
      error              |-> "" ]

\* research_data: Annotated[List[dict], operator.add]
research_data_reducer(old, returned) == old \o returned

\* A stage returns the whole state dict; the graph writes each returned key
\* to its channel: the last value wins, except research_data, whose reducer
\* adds the returned list to the list the channel holds.
ApplyWrites(old, returned) ==
    [returned EXCEPT
        !.research_data = research_data_reducer(old.research_data, returned.research_data)]

\* create_llm raises ValueError when OPENAI_API_KEY is not set.
create_llm_raises(e) == ~e.openai_key

----------------------------------------------------------------------------
(* validation_agent, from the try block on (lines 84-95)                   *)

ValidationDiagnostic == "Failed to validate query: <exception>"
ValidationError == "Validation parsing error: <content[:200]>"

\* Mutant: an absent is_valid key counts as valid.
validation_success_default_true(s, result) ==
    [s EXCEPT !.is_valid = Get(result, "is_valid", PyTrue),
              !.validation_message = Get(result, "message", ""),
              !.current_agent = "validation"]

validation_success(s, result) ==
    [s EXCEPT !.is_valid = Get(result, "is_valid", PyFalse),
              !.validation_message = Get(result, "message", ""),
              !.current_agent = "validation"]

\* Mutant: the except branch forgets to set error.
validation_failure_no_error(s) ==
    [s EXCEPT !.is_valid = PyFalse,
              !.validation_message = ValidationDiagnostic]

\* A handler that would still record the stage as completed.
validation_failure_advances(s) ==
    [s EXCEPT !.is_valid = PyFalse,
              !.validation_message = ValidationDiagnostic,
              !.error = ValidationError,
              !.current_agent = "validation"]

validation_failure(s) ==
    [s EXCEPT !.is_valid = PyFalse,
              !.validation_message = ValidationDiagnostic,
              !.error = ValidationError]

\* The try block raises: json.loads fails, or result.get does.
validation_try_raises(c) == LoadsRaises(c) \/ NotADict(c)

validation_agent(s, c) ==
    IF validation_try_raises(c)
    THEN validation_failure(s)
    ELSE validation_success(s, c.value)

----------------------------------------------------------------------------
(* should_continue and the compiled graph's conditional edges              *)

\* Mutant: the error check is missing.
should_continue_no_error_gate(s) ==
    LET current == Get(s, "current_agent", "")
    IN  IF current = "" THEN "validation"
        ELSE IF current = "validation"
             THEN IF ~Truthy(Get(s, "is_valid", PyFalse)) THEN "end"
                  ELSE "research"
        ELSE IF current = "research" THEN "structure"
        ELSE IF current = "structure" THEN "end"
        ELSE "end"

\* Mutant: the is_valid check is missing.
should_continue_no_validity_gate(s) ==
    IF Truthy(Get(s, "error", PyNone)) THEN "end"
    ELSE LET current == Get(s, "current_agent", "")
         IN  IF current = "" THEN "validation"
             ELSE IF current = "validation" THEN "research"
             ELSE IF current = "research" THEN "structure"
             ELSE IF current = "structure" THEN "end"
             ELSE "end"

\* Mutant: the unknown-tag default restarts the pipeline instead of ending it.
should_continue_default_restarts(s) ==
    IF Truthy(Get(s, "error", PyNone)) THEN "end"
    ELSE LET current == Get(s, "current_agent", "")
         IN  IF current = "validation"
             THEN IF ~Truthy(Get(s, "is_valid", PyFalse)) THEN "end"
                  ELSE "research"
             ELSE IF current = "research" THEN "structure"
             ELSE IF current = "structure" THEN "end"
             ELSE "validation"

should_continue(s) ==
    IF Truthy(Get(s, "error", PyNone)) THEN "end"
    ELSE LET current == Get(s, "current_agent", "")
         IN  IF current = "" THEN "validation"
             ELSE IF current = "validation"
                  THEN IF ~Truthy(Get(s, "is_valid", PyFalse)) THEN "end"
                       ELSE "research"
             ELSE IF current = "research" THEN "structure"
             ELSE IF current = "structure" THEN "end"
             ELSE "end"

\* add_conditional_edges: the keys each stage's mapping has.
EdgeKeys(stage) ==
    CASE stage = "validation" -> {"research", "end"}
      [] stage = "research"   -> {"structure", "end"}
      [] stage = "structure"  -> {"end"}

\* The node to run after `stage` returned: the mapping's target for the key
\* should_continue gives ("end" is END), and an error when the key is unmapped.
NextNode(stage, s) ==
    LET key == should_continue(s)
    IN  IF key \in EdgeKeys(stage) THEN key ELSE "raised"

----------------------------------------------------------------------------
(* SerperSearchTool (utils/search.py)                                      *)
(* A provider response is what requests.post does for one call: "raise"    *)
(* (the request or response.json() raises), "error" (status_code != 200)   *)
(* or "ok" with the list under "organic".  An organic result's `match`     *)
(* says whether it passes the calling method's filter (a youtube.com link, *)
(* a documentation link, a book-like title or snippet).                    *)

Kinds == {"video", "course", "documentation", "book"}

\* SerperSearchTool.__init__
SerperSearchTool(e) ==
    [ api_key        |-> e.serper_key,
      search_enabled |-> e.search_enabled /\ e.serper_key ]

ResourceOf(type, source, r) ==
    [ title |-> r.title, url |-> r.link, description |-> "snippet",
      type |-> type, source |-> source ]

Matching(organic) == SelectSeq(organic, LAMBDA r : r.match)

Head_n(s, n) == SubSeq(s, 1, Min(n, Len(s)))

\* A video search that would filter every result the provider returned.
search_youtube_unsliced(tool, query, max_results, resp) ==
    IF ~tool.search_enabled THEN <<>>
    ELSE IF resp.status = "raise" THEN <<>>
    ELSE IF resp.status # "ok" THEN <<>>
    ELSE LET hits == Matching(resp.organic)
         IN  [i \in 1..Len(hits) |-> ResourceOf("video", "YouTube", hits[i])]

search_youtube(tool, query, max_results, resp) ==
    IF ~tool.search_enabled THEN <<>>
    ELSE IF resp.status = "raise" THEN <<>>
    ELSE IF resp.status # "ok" THEN <<>>
    ELSE LET hits == Matching(Head_n(resp.organic, max_results))
         IN  [i \in 1..Len(hits) |-> ResourceOf("video", "YouTube", hits[i])]

Platforms == <<"Coursera", "Udemy", "Edx">>

\* The loop over platforms: each request asks for 2 results and takes at
\* most 2; the loop breaks once max_results courses are collected.
\* resps[i] is the provider's response to the request for Platforms[i].  A
\* request that raises ends the loop with the exception; a response that is
\* not 200 is skipped.
RECURSIVE courses_loop(_, _, _, _)
courses_loop(i, courses, max_results, resps) ==
    IF i > Len(Platforms) THEN [raised |-> FALSE, courses |-> courses]
    ELSE IF resps[i].status = "raise" THEN [raised |-> TRUE, courses |-> courses]
    ELSE LET top == IF resps[i].status = "ok" THEN Head_n(resps[i].organic, 2) ELSE <<>>
             got == [j \in 1..Len(top) |-> ResourceOf("course", Platforms[i], top[j])]
             acc == courses \o got
         IN  IF Len(acc) >= max_results THEN [raised |-> FALSE, courses |-> acc]
             ELSE courses_loop(i + 1, acc, max_results, resps)

search_courses(tool, query, max_results, resps) ==
    IF ~tool.search_enabled THEN <<>>
    ELSE LET loop == courses_loop(1, <<>>, max_results, resps)
         IN  IF loop.raised THEN <<>>
             ELSE Head_n(loop.courses, max_results)

\* The same provider response for each platform's request.
PerPlatform(resp) == [i \in 1..Len(Platforms) |-> resp]

search_documentation(tool, query, max_results, resp) ==
    IF ~tool.search_enabled THEN <<>>
    ELSE IF resp.status = "raise" THEN <<>>
    ELSE IF resp.status # "ok" THEN <<>>
    ELSE LET hits == Matching(Head_n(resp.organic, max_results))
         IN  [i \in 1..Len(hits) |-> ResourceOf("documentation", "Official Docs", hits[i])]

\* search_books scans every organic result and stops at max_results books.
search_books(tool, query, max_results, resp) ==
    IF ~tool.search_enabled THEN <<>>
    ELSE IF resp.status = "raise" THEN <<>>
    ELSE IF resp.status # "ok" THEN <<>>
    ELSE LET hits == Head_n(Matching(resp.organic), max_results)
         IN  [i \in 1..Len(hits) |-> ResourceOf("book", "Book", hits[i])]

----------------------------------------------------------------------------
(* research_agent, from the try block on (lines 151-230)                   *)

ResearchError == "Research parsing error: <exception>"

TopicsOf(d) == Get(d, "topics", <<>>)
SubtopicsOf(topic) == Get(topic, "subtopics", <<>>)

\* subtopic["title"] is read for every subtopic on both branches.
SubtopicTitleMissing(d) ==
    \E i \in 1..Len(TopicsOf(d)) :
        \E j \in 1..Len(SubtopicsOf(TopicsOf(d)[i])) :
            "title" \notin DOMAIN SubtopicsOf(TopicsOf(d)[i])[j]

\* topic["title"] is read for every topic on the search branch only.
TopicTitleMissing(d) ==
    \E i \in 1..Len(TopicsOf(d)) : "title" \notin DOMAIN TopicsOf(d)[i]

\* The body of the try block raises (KeyError) while enriching.
EnrichmentRaises(d, search_enabled) ==
    \/ SubtopicTitleMissing(d)
    \/ search_enabled /\ TopicTitleMissing(d)

\* Lines 189-198: a subtopic of `topic` under search.
searched_subtopic(tool, topic, subtopic, resp) ==
    LET subtopic_query == <<topic.title, subtopic.title>>
        sub_videos  == search_youtube(tool, subtopic_query, 2, resp["video"])
        sub_courses == search_courses(tool, subtopic_query, 1, PerPlatform(resp["course"]))
        sub_docs    == search_documentation(tool, subtopic_query, 1, resp["documentation"])
    IN  Put(subtopic, "resources", sub_videos \o sub_courses \o sub_docs)

\* Mutant: a topic whose video search found nothing gets no resources.
searched_topic_needs_videos(tool, topic, resp) ==
    LET videos  == search_youtube(tool, topic.title, 4, resp["video"])
        courses == search_courses(tool, topic.title, 3, PerPlatform(resp["course"]))
        docs    == search_documentation(tool, topic.title, 2, resp["documentation"])
        books   == search_books(tool, topic.title, 3, resp["book"])
        topic_resources == IF videos = <<>> THEN <<>> ELSE videos \o courses \o docs
    IN  Put(Put(topic, "resources", topic_resources), "books", books)

\* Mutant: the documentation results are not added to the topic's resources.
searched_topic_drops_docs(tool, topic, resp) ==
    LET videos  == search_youtube(tool, topic.title, 4, resp["video"])
        courses == search_courses(tool, topic.title, 3, PerPlatform(resp["course"]))
        books   == search_books(tool, topic.title, 3, resp["book"])
    IN  Put(Put(topic, "resources", videos \o courses), "books", books)

\* Lines 162-203: one topic under search.
searched_topic(tool, topic, resp) ==
    LET videos  == search_youtube(tool, topic.title, 4, resp["video"])
        courses == search_courses(tool, topic.title, 3, PerPlatform(resp["course"]))
        docs    == search_documentation(tool, topic.title, 2, resp["documentation"])
        books   == search_books(tool, topic.title, 3, resp["book"])
        topic_resources == videos \o courses \o docs
        subs    == SubtopicsOf(topic)
        with_subs ==
            IF "subtopics" \in DOMAIN topic
            THEN Put(topic, "subtopics",
                     [j \in 1..Len(subs) |-> searched_subtopic(tool, topic, subs[j], resp)])
            ELSE topic
    IN  Put(Put(with_subs, "resources", topic_resources), "books", books)

\* Lines 212-220: the placeholder resource of a subtopic.
placeholder_resource(subtopic) ==
    [ title |-> <<"Learn", subtopic.title>>, url |-> "https://example.com",
      type |-> "course", description |-> <<"Comprehensive guide to", subtopic.title>>,
      source |-> "LLM Suggestion" ]

\* Mutant: the fallback leaves the subtopics without resources.
fallback_topic_no_placeholder(topic) ==
    LET subs == SubtopicsOf(topic)
        with_subs ==
            IF "subtopics" \in DOMAIN topic
            THEN Put(topic, "subtopics",
                     [j \in 1..Len(subs) |-> Put(subs[j], "resources", <<>>)])
            ELSE topic
    IN  Put(Put(with_subs, "resources", <<>>), "books", <<>>)

\* Lines 207-220: one topic with search disabled.
fallback_topic(topic) ==
    LET subs == SubtopicsOf(topic)
        with_subs ==
            IF "subtopics" \in DOMAIN topic
            THEN Put(topic, "subtopics",
                     [j \in 1..Len(subs) |->
                         Put(subs[j], "resources", <<placeholder_resource(subs[j])>>)])
            ELSE topic
    IN  Put(Put(with_subs, "resources", <<>>), "books", <<>>)

\* A Research stage that would hand the decomposition on as it came.
enriched_nothing(d, e, resp) == d

\* topics_structure after step 2.
enriched(d, e, resp) ==
    IF "topics" \notin DOMAIN d THEN d
    ELSE Put(d, "topics",
             [i \in 1..Len(d.topics) |->
                 IF e.search_enabled
                 THEN searched_topic(SerperSearchTool(e), d.topics[i], resp)
                 ELSE fallback_topic(d.topics[i])])

\* Mutant: the success path records the wrong stage tag.
research_success_wrong_tag(s, topics_structure) ==
    [s EXCEPT !.research_data = <<topics_structure>>,
              !.current_agent = "structure"]

\* Mutant: the success path does not store the tree.
research_success_drops_tree(s, topics_structure) ==
    [s EXCEPT !.current_agent = "research"]

research_success(s, topics_structure) ==
    [s EXCEPT !.research_data = <<topics_structure>>,
              !.current_agent = "research"]

\* Mutant: the except branch forgets to set error.
research_failure_no_error(s) ==
    [s EXCEPT !.research_data = <<>>]

\* A handler that would also withdraw the validation verdict.
research_failure_invalidates(s) ==
    [s EXCEPT !.research_data = <<>>,
              !.is_valid = PyFalse,
              !.validation_message = "",
              !.error = ResearchError]

research_failure(s) ==
    [s EXCEPT !.research_data = <<>>,
              !.error = ResearchError]

\* The try block raises: json.loads fails, topics_structure.get does, or
\* a title is missing.
research_try_raises(c, e) ==
    LoadsRaises(c) \/ NotADict(c) \/ EnrichmentRaises(c.value, e.search_enabled)

research_agent(s, c, e, resp) ==
    IF research_try_raises(c, e)
    THEN research_failure(s)
    ELSE research_success(s, enriched(c.value, e, resp))

\* The discovery calls research_agent makes, in order, up to the point where
\* the try block raises (if it does).
DiscoveryCall(method, query, max_results) ==
    [method |-> method, query |-> query, max_results |-> max_results]

RECURSIVE subtopic_calls(_, _, _)
subtopic_calls(topic, subs, j) ==
    IF j > Len(subs) THEN <<>>
    ELSE IF "title" \notin DOMAIN subs[j] THEN <<>>
    ELSE LET subtopic_query == <<topic.title, subs[j].title>>
         IN  << DiscoveryCall("search_youtube", subtopic_query, 2),
                DiscoveryCall("search_courses", subtopic_query, 1),
                DiscoveryCall("search_documentation", subtopic_query, 1) >>
             \o subtopic_calls(topic, subs, j + 1)

RECURSIVE topic_calls(_, _)
topic_calls(topics, i) ==
    IF i > Len(topics) THEN <<>>
    ELSE IF "title" \notin DOMAIN topics[i] THEN <<>>
    ELSE LET topic == topics[i]
             subs == SubtopicsOf(topic)
             untitled == \E j \in 1..Len(subs) : "title" \notin DOMAIN subs[j]
         IN  << DiscoveryCall("search_youtube", <<topic.title>>, 4),
                DiscoveryCall("search_courses", <<topic.title>>, 3),
                DiscoveryCall("search_documentation", <<topic.title>>, 2),
                DiscoveryCall("search_books", <<topic.title>>, 3) >>
             \o subtopic_calls(topic, subs, 1)
             \o (IF untitled THEN <<>> ELSE topic_calls(topics, i + 1))

research_calls(c, e) ==
    IF LoadsRaises(c) \/ NotADict(c) \/ ~e.search_enabled THEN <<>>
    ELSE topic_calls(TopicsOf(c.value), 1)

----------------------------------------------------------------------------
(* structure_agent, from the try block on (lines 326-363), and the         *)
(* pydantic models of models/schemas.py                                    *)

StructureError == "Structure parsing error: <exception>"

ResourceRequired == {"title", "url", "type", "description"}
NodeRequired == {"id", "title", "description", "level"}

\* Resource(**r): the required fields must be there, the optional ones
\* default to None.
Resource(r) ==
    [ title          |-> r.title,
      url            |-> r.url,
      type           |-> r.type,
      description    |-> r.description,
      duration       |-> Get(r, "duration", PyNone),
      source         |-> Get(r, "source", PyNone),
      published_date |-> Get(r, "published_date", PyNone) ]

ResourcesOf(node_data) == Get(node_data, "resources", <<>>)

\* A conversion that would lose the resources and the prerequisites.
RoadmapNode_bare(node_data) ==
    [ id             |-> node_data.id,
      title          |-> node_data.title,
      description    |-> node_data.description,
      level          |-> node_data.level,
      parent_id      |-> Get(node_data, "parent_id", PyNone),
      resources      |-> <<>>,
      prerequisites  |-> <<>>,
      estimated_time |-> Get(node_data, "estimated_time", PyNone) ]

\* RoadmapNode(id=node_data["id"], ..., estimated_time=node_data.get(...))
RoadmapNode(node_data) ==
    [ id             |-> node_data.id,
      title          |-> node_data.title,
      description    |-> node_data.description,
      level          |-> node_data.level,
      parent_id      |-> Get(node_data, "parent_id", PyNone),
      resources      |-> [k \in 1..Len(ResourcesOf(node_data)) |->
                              Resource(ResourcesOf(node_data)[k])],
      prerequisites  |-> Get(node_data, "prerequisites", <<>>),
      estimated_time |-> Get(node_data, "estimated_time", PyNone) ]

\* node_data["id"] etc. raise KeyError, Resource(**r) raises ValidationError.
NodeRaises(node_data) ==
    \/ ~(NodeRequired \subseteq DOMAIN node_data)
    \/ \E k \in 1..Len(ResourcesOf(node_data)) :
           ~(ResourceRequired \subseteq DOMAIN ResourcesOf(node_data)[k])

NodeListOf(result) == Get(result, "nodes", <<>>)

ConversionRaises(result) ==
    \E i \in 1..Len(NodeListOf(result)) : NodeRaises(NodeListOf(result)[i])

structure_success(s, result) ==
    [s EXCEPT !.roadmap_structure = result,
              !.nodes = [i \in 1..Len(NodeListOf(result)) |->
                            RoadmapNode(NodeListOf(result)[i])],
              !.current_agent = "structure"]

\* A handler that would forget to set error.
structure_parse_failure_no_error(s) ==
    [s EXCEPT !.nodes = <<>>]

\* Reached from json.loads / extract_json: nothing of the try block ran.
structure_parse_failure(s) ==
    [s EXCEPT !.nodes = <<>>,
              !.error = StructureError]

\* The entries of the node list converted before the first one that raises.
RECURSIVE ConvertedBefore(_, _)
ConvertedBefore(node_list, i) ==
    IF i > Len(node_list) \/ NodeRaises(node_list[i]) THEN <<>>
    ELSE <<RoadmapNode(node_list[i])>> \o ConvertedBefore(node_list, i + 1)

\* A handler that would hand out the nodes converted so far.
structure_conversion_failure_partial(s, result) ==
    [s EXCEPT !.roadmap_structure = result,
              !.nodes = ConvertedBefore(NodeListOf(result), 1),
              !.error = StructureError]

\* Reached from the conversion loop: line 329 already stored the parsed
\* object in roadmap_structure.
structure_conversion_failure(s, result) ==
    [s EXCEPT !.roadmap_structure = result,
              !.nodes = <<>>,
              !.error = StructureError]

structure_try_raises(c) ==
    LoadsRaises(c) \/ NotADict(c) \/ ConversionRaises(c.value)

\* The tree invariants of a node list: no id twice, exactly one level-0
\* node, every parent id and prerequisite id the id of a node of the list.
TreeInvariants(node_list) ==
    LET ids == {node_list[i].id : i \in 1..Len(node_list)}
    IN  /\ \A i, j \in 1..Len(node_list) : node_list[i].id = node_list[j].id => i = j
        /\ \E i \in 1..Len(node_list) :
               /\ node_list[i].level = 0
               /\ \A j \in 1..Len(node_list) : node_list[j].level = 0 => j = i
        /\ \A i \in 1..Len(node_list) :
               /\ "parent_id" \in DOMAIN node_list[i] => node_list[i].parent_id \in ids
               /\ \A k \in 1..Len(Get(node_list[i], "prerequisites", <<>>)) :
                      node_list[i].prerequisites[k] \in ids

\* A Structuring stage that would reject a node list that is no tree.
structure_agent_checks_tree(s, c) ==
    IF LoadsRaises(c) THEN structure_parse_failure(s)
    ELSE IF NotADict(c) THEN structure_conversion_failure(s, c.value)
    ELSE IF ConversionRaises(c.value) THEN structure_conversion_failure(s, c.value)
    ELSE IF ~TreeInvariants(NodeListOf(c.value))
         THEN structure_conversion_failure(s, c.value)
    ELSE structure_success(s, c.value)

structure_agent(s, c) ==
    IF LoadsRaises(c) THEN structure_parse_failure(s)
    ELSE IF NotADict(c) THEN structure_conversion_failure(s, c.value)
    ELSE IF ConversionRaises(c.value) THEN structure_conversion_failure(s, c.value)
    ELSE structure_success(s, c.value)

----------------------------------------------------------------------------
(* create_roadmap (main.py): the status the HTTP layer answers with, from  *)
(* what generate_roadmap returned or from the exception it raised          *)

\* A handler that would answer with whatever nodes it got, even none.
create_roadmap_accepts_empty(raised, result) ==
    IF raised THEN 500
    ELSE IF ~Truthy(Get(result, "is_valid", PyFalse)) THEN 400
    ELSE IF Truthy(Get(result, "error", PyNone)) THEN 500
    ELSE 200

create_roadmap(raised, result) ==
    IF raised THEN 500                                  \* except Exception
    ELSE IF ~Truthy(Get(result, "is_valid", PyFalse)) THEN 400
    ELSE IF Truthy(Get(result, "error", PyNone)) THEN 500
    ELSE IF Len(Get(result, "nodes", <<>>)) = 0 THEN 500
    ELSE 200

----------------------------------------------------------------------------
(* Inputs                                                                  *)

MaxTopics == 1       \* topics in a decomposition
MaxSubtopics == 1    \* subtopics of a topic
MaxNodes == 2        \* entries of a parsed node list

SeqsUpTo(S, n) == UNION {[1..k -> S] : k \in 0..n}

Queries == {"Become a backend engineer"}

Environments ==
    [openai_key : BOOLEAN, search_enabled : BOOLEAN, serper_key : BOOLEAN]

\* Validation completions: every subset of the two keys, is_valid any scalar.
ValidationObjects ==
    {EmptyDict, [message |-> "why"]}
    \cup {[is_valid |-> v] : v \in JsonScalars}
    \cup {[is_valid |-> v, message |-> "why"] : v \in JsonScalars}

ValidationCompletions ==
    {Prose, JsonArray, JsonScalar} \cup {JsonObject(o) : o \in ValidationObjects}

\* Topic decompositions: subtopics and topics with and without a title.
SubtopicInputs ==
    {[title |-> "S1", units |-> <<"u1">>], [description |-> "untitled"]}

TopicInputs ==
    {[title |-> "T1"], [description |-> "untitled"]}
    \cup {[title |-> "T1", subtopics |-> ss] : ss \in SeqsUpTo(SubtopicInputs, MaxSubtopics)}

DecompositionObjects ==
    {EmptyDict} \cup {[topics |-> ts] : ts \in SeqsUpTo(TopicInputs, MaxTopics)}

ResearchCompletions ==
    {Prose, JsonArray} \cup {JsonObject(o) : o \in DecompositionObjects}

\* More results than any cap, the second one failing the method's filter.
Organic ==
    << [title |-> "r1", link |-> "l1", match |-> TRUE],
       [title |-> "r2", link |-> "l2", match |-> FALSE],
       [title |-> "r3", link |-> "l3", match |-> TRUE],
       [title |-> "r4", link |-> "l4", match |-> TRUE],
       [title |-> "r5", link |-> "l5", match |-> TRUE],
       [title |-> "r6", link |-> "l6", match |-> TRUE] >>

\* In a pipeline run each kind's requests either all raise or all succeed
\* with Organic; SpecSearch below covers the other responses.
DiscoveryResponses ==
    {[status |-> "raise", organic |-> <<>>], [status |-> "ok", organic |-> Organic]}

\* Structuring completions.
GoodResource == [title |-> "r1", url |-> "l1", type |-> "video", description |-> "d"]
BadResource == [title |-> "r1", type |-> "video", description |-> "d"]

NodeInputs ==
    { [id |-> "root", title |-> "Goal", description |-> "d", level |-> 0],
      [id |-> "t1", title |-> "T1", description |-> "d", level |-> 1,
       parent_id |-> "root", resources |-> <<GoodResource>>,
       prerequisites |-> <<"root">>, estimated_time |-> "2 weeks"],
      [title |-> "no id", description |-> "d", level |-> 1],
      [id |-> "t2", title |-> "T2", description |-> "d", level |-> 1,
       resources |-> <<BadResource>>] }

StructureObjects ==
    {[title |-> "Roadmap"]}
    \cup {[title |-> "Roadmap", nodes |-> ns] : ns \in SeqsUpTo(NodeInputs, MaxNodes)}

StructureCompletions ==
    {Prose, JsonArray} \cup {JsonObject(o) : o \in StructureObjects}

----------------------------------------------------------------------------
(* The orchestrator: generate_roadmap runs the compiled graph              *)

NoneSeen == [st \in Stages |-> NoCompletion]
NoOutcome == [st \in Stages |-> "none"]

NoDiscovery == [resp |-> [k \in Kinds |-> [status |-> "none", organic |-> <<>>]],
                calls |-> <<>>]

\* The variables of the extract_json calls and of the search tool, at rest.
ExtractorIdle == content = <<>> /\ extracted = <<>>
SearchIdle == search_tool = [api_key |-> FALSE, search_enabled |-> FALSE] /\ searches = <<>>
NoRequests == requests = <<>> /\ exports = <<>> /\ tmp = <<>>
PipelineIdle ==
    /\ NoRequests
    /\ env = [openai_key |-> TRUE, search_enabled |-> FALSE, serper_key |-> FALSE]
    /\ invoked = <<>>
    /\ seen = NoneSeen
    /\ outcome = NoOutcome
    /\ discovery = NoDiscovery
    /\ http = 0

Init ==
    /\ env \in Environments
    /\ \E q \in Queries : state = InitialState(q)
    /\ pc = "validation"          \* set_entry_point("validation")
    /\ invoked = <<>>
    /\ seen = NoneSeen
    /\ outcome = NoOutcome
    /\ discovery = NoDiscovery
    /\ http = 0
    /\ NoRequests
    /\ ExtractorIdle
    /\ SearchIdle

\* The stage's call ends with an exception before its try block: create_llm
\* or llm.invoke raised, and graph.ainvoke raises with it.
StageRaises(stage) ==
    /\ pc' = "raised"
    /\ outcome' = [outcome EXCEPT ![stage] = "raised"]
    /\ UNCHANGED <<state, seen>>

\* The stage returned `returned` after llm.invoke gave completion c; the
\* graph writes it to the channels and follows the stage's conditional edge.
StageReturns(stage, c, caught, returned) ==
    /\ ~create_llm_raises(env)
    /\ state' = ApplyWrites(state, returned)
    /\ pc' = NextNode(stage, state')
    /\ seen' = [seen EXCEPT ![stage] = c]
    /\ outcome' = [outcome EXCEPT ![stage] = IF caught THEN "caught" ELSE "returned"]

\* The provider answers only the requests that are made: none when the
\* tool is disabled or research_agent makes no discovery call.
ProviderResponses(c, e) ==
    IF SerperSearchTool(e).search_enabled /\ research_calls(c, e) # <<>>
    THEN [Kinds -> DiscoveryResponses]
    ELSE {NoDiscovery.resp}

RunValidation ==
    /\ pc = "validation"
    /\ invoked' = Append(invoked, "validation")
    /\ UNCHANGED <<env, discovery, http, content, extracted, search_tool, searches, requests, exports, tmp>>
    /\ \/ StageRaises("validation")
       \/ \E c \in ValidationCompletions :
              StageReturns("validation", c, validation_try_raises(c),
                           validation_agent(state, c))

RunResearch ==
    /\ pc = "research"
    /\ invoked' = Append(invoked, "research")
    /\ UNCHANGED <<env, http, content, extracted, search_tool, searches, requests, exports, tmp>>
    /\ \/ StageRaises("research") /\ UNCHANGED discovery
       \/ \E c \in ResearchCompletions :
          \E resp \in ProviderResponses(c, env) :
              /\ StageReturns("research", c, research_try_raises(c, env),
                              research_agent(state, c, env, resp))
              /\ discovery' = [resp |-> resp, calls |-> research_calls(c, env)]

RunStructure ==
    /\ pc = "structure"
    /\ invoked' = Append(invoked, "structure")
    /\ UNCHANGED <<env, discovery, http, content, extracted, search_tool, searches, requests, exports, tmp>>
    /\ \/ StageRaises("structure")
       \/ \E c \in StructureCompletions :
              StageReturns("structure", c, structure_try_raises(c),
                           structure_agent(state, c))

Next == RunValidation \/ RunResearch \/ RunStructure

Spec == Init /\ [][Next]_vars

\* The HTTP handler around the pipeline: create_roadmap awaits
\* generate_roadmap and answers once it has returned or raised.
Respond ==
    /\ pc \in {"end", "raised"}
    /\ http = 0
    /\ http' = create_roadmap(pc = "raised", state)
    /\ UNCHANGED <<state, pc, env, invoked, seen, outcome, discovery,
                   content, extracted, search_tool, searches, requests, exports, tmp>>

NextHttp == Next \/ Respond

SpecHttp == Init /\ [][NextHttp]_vars

----------------------------------------------------------------------------
(* The router alone: should_continue applied to any state dict             *)

RouterAgents == {"", "validation", "research", "structure", "export"}
RouterErrors == {"", ValidationError, ResearchError}

RouterValues(key) ==
    CASE key = "error"         -> RouterErrors
      [] key = "current_agent" -> RouterAgents
      [] key = "is_valid"      -> JsonScalars

\* Every dict over a subset of the three keys should_continue reads.
RouterStates ==
    UNION { { s \in [K -> RouterErrors \cup RouterAgents \cup JsonScalars] :
                \A k \in K : s[k] \in RouterValues(k) } :
            K \in SUBSET {"error", "current_agent", "is_valid"} }

InitRouter ==
    /\ state \in RouterStates
    /\ pc = "router"
    /\ PipelineIdle
    /\ ExtractorIdle
    /\ SearchIdle

Route ==
    /\ pc = "router"
    /\ pc' = should_continue(state)
    /\ UNCHANGED <<state, env, invoked, seen, outcome, discovery, http,
                   content, extracted, search_tool, searches, requests, exports, tmp>>

NextRouter == Route

SpecRouter == InitRouter /\ [][NextRouter]_vars

----------------------------------------------------------------------------
(* The discovery calls alone: a SerperSearchTool and a series of calls of  *)
(* its four search methods, each answered by the provider in any way       *)

MaxCalls == 2        \* calls made on one tool

Methods == {"search_youtube", "search_courses", "search_documentation", "search_books"}

\* The default of each method's max_results parameter.
max_results_default(method) ==
    CASE method = "search_youtube"       -> 5
      [] method = "search_courses"       -> 5
      [] method = "search_documentation" -> 3
      [] method = "search_books"         -> 3

\* What requests.post can do for one request; "raise" also stands for a
\* response whose json() or whose results' processing raises.
SearchResponses ==
    { [status |-> "raise", organic |-> <<>>],
      [status |-> "error", organic |-> <<>>],
      [status |-> "ok", organic |-> Organic] }

\* The provider's behaviour during one call: one response per request the
\* method can make (three for search_courses, one for the others).
CallResponses(method) ==
    IF method = "search_courses" THEN [1..Len(Platforms) -> SearchResponses]
    ELSE [1..1 -> SearchResponses]

\* A call that would let the exception of a request leave the method.
discovery_call_propagates(tool, method, max_results, resps) ==
    IF tool.search_enabled /\ resps[1].status = "raise"
    THEN [raised |-> TRUE, value |-> <<>>]
    ELSE [raised |-> FALSE,
          value |-> CASE method = "search_youtube" ->
                             search_youtube(tool, "q", max_results, resps[1])
                      [] method = "search_courses" ->
                             search_courses(tool, "q", max_results, resps)
                      [] method = "search_documentation" ->
                             search_documentation(tool, "q", max_results, resps[1])
                      [] method = "search_books" ->
                             search_books(tool, "q", max_results, resps[1])]

\* One call of a search method: every statement after the early return is
\* inside `try ... except Exception: return []`, so the call returns.
discovery_call(tool, method, max_results, resps) ==
    [raised |-> FALSE,
     value |-> CASE method = "search_youtube" ->
                        search_youtube(tool, "q", max_results, resps[1])
                 [] method = "search_courses" ->
                        search_courses(tool, "q", max_results, resps)
                 [] method = "search_documentation" ->
                        search_documentation(tool, "q", max_results, resps[1])
                 [] method = "search_books" ->
                        search_books(tool, "q", max_results, resps[1])]

\* A tool that would switch itself off after a request that raised.
tool_after_call_gives_up(tool, resps) ==
    IF \E i \in 1..Len(resps) : resps[i].status = "raise"
    THEN [tool EXCEPT !.search_enabled = FALSE]
    ELSE tool

\* The search methods assign no attribute of self.
tool_after_call(tool, resps) == tool

InitSearch ==
    /\ \E e \in Environments : search_tool = SerperSearchTool(e)
    /\ searches = <<>>
    /\ \E q \in Queries : state = InitialState(q)
    /\ pc = "search"
    /\ PipelineIdle
    /\ ExtractorIdle

Call(method) ==
    /\ Len(searches) < MaxCalls
    /\ \E resps \in CallResponses(method) :
          LET max_results == max_results_default(method)
              done == discovery_call(search_tool, method, max_results, resps)
          IN  /\ searches' = Append(searches,
                     [ method |-> method, max_results |-> max_results,
                       resps |-> resps, raised |-> done.raised,
                       value |-> done.value ])
              /\ search_tool' = tool_after_call(search_tool, resps)
    /\ UNCHANGED <<state, pc, env, invoked, seen, outcome, discovery, http,
                   content, extracted, requests, exports, tmp>>

CallYoutube == Call("search_youtube")
CallCourses == Call("search_courses")
CallDocumentation == Call("search_documentation")
CallBooks == Call("search_books")

NextSearch == CallYoutube \/ CallCourses \/ CallDocumentation \/ CallBooks

SpecSearch == InitSearch /\ [][NextSearch]_vars

----------------------------------------------------------------------------
(* extract_json alone: one call on a text put together from pieces of      *)
(* completions                                                             *)

MaxChunks == 4       \* pieces a text is put together from

Chunks ==
    { <<Fence>>,                                   \* a bare fence
      <<Fence, Tag, Space>>,                       \* an opening fence, tagged
      <<Space>>,
      <<Other>>,
      <<Close>>,
      <<Close, Space, Fence>>,                     \* a fenced block's end
      <<Open, Key>>,                               \* an object's start
      <<Open, Key, Other, Close>>,                 \* a small object
      <<Quote, Fence, Open, Close, Fence, Quote>>, \* a string holding a fenced {}
      <<Quote, Close, Fence, Quote>> }             \* a string holding } and a fence

RECURSIVE Flatten(_)
Flatten(chunks) ==
    IF chunks = <<>> THEN <<>> ELSE Head(chunks) \o Flatten(Tail(chunks))

InitExtract ==
    /\ \E chunks \in SeqsUpTo(Chunks, MaxChunks) : content = Flatten(chunks)
    /\ extracted = <<>>
    /\ \E q \in Queries : state = InitialState(q)
    /\ pc = "extract"
    /\ PipelineIdle
    /\ SearchIdle

Extract ==
    /\ pc = "extract"
    /\ extracted' = extract_json(content)
    /\ pc' = "extracted"
    /\ UNCHANGED <<state, env, invoked, seen, outcome, discovery, http,
                   content, search_tool, searches, requests, exports, tmp>>

NextExtract == Extract

SpecExtract == InitExtract /\ [][NextExtract]_vars

----------------------------------------------------------------------------
(* Several requests in one server process: each create_roadmap call awaits *)
(* its own generate_roadmap, whose stages run while the other requests'    *)
(* graphs are between two stages.  The process environment is the one      *)
(* thing the requests have in common, and they only read it.               *)

MaxRequests == 2     \* requests in progress at the same time

ConcurrentQueries == Queries \cup {"Learn Rust"}

\* A few completions per stage: one that fails to parse and some that parse.
ConcurrentCompletions(stage) ==
    CASE stage = "validation" ->
             {Prose, JsonObject([is_valid |-> PyTrue, message |-> "why"]),
              JsonObject([is_valid |-> PyFalse, message |-> "why"])}
      [] stage = "research" ->
             {Prose, JsonObject([topics |-> <<[title |-> "T1",
                                               subtopics |-> <<[title |-> "S1"]>>]>>])}
      [] stage = "structure" ->
             {Prose, JsonObject([title |-> "Roadmap", nodes |-> <<
                 [id |-> "root", title |-> "Goal", description |-> "d", level |-> 0]>>])}

\* The provider answers every kind's requests alike.
ConcurrentResponses(c, e) ==
    IF SerperSearchTool(e).search_enabled /\ research_calls(c, e) # <<>>
    THEN {[k \in Kinds |-> r] : r \in DiscoveryResponses}
    ELSE {NoDiscovery.resp}

\* A server whose requests would all work on one state dict.
own_state_shared(reqs, r, returned, next) ==
    [o \in DOMAIN reqs |->
        [state |-> returned, pc |-> IF o = r THEN next ELSE reqs[o].pc]]

\* graph.ainvoke(initial_state) works on the dict built by this call of
\* generate_roadmap: the stage's writes go to the request's own channels.
own_state(reqs, r, returned, next) ==
    [reqs EXCEPT ![r] = [state |-> returned, pc |-> next]]

InitServer ==
    /\ env \in Environments
    /\ requests = <<>>
    /\ exports = <<>>
    /\ tmp = <<>>
    /\ \E q \in Queries : state = InitialState(q)
    /\ pc = "serving"
    /\ invoked = <<>>
    /\ seen = NoneSeen
    /\ outcome = NoOutcome
    /\ discovery = NoDiscovery
    /\ http = 0
    /\ ExtractorIdle
    /\ SearchIdle

ServerFrame ==
    UNCHANGED <<state, pc, env, invoked, seen, outcome, discovery, http,
                content, extracted, search_tool, searches, exports, tmp>>

\* generate_roadmap(query) builds initial_state and enters the graph.
StartRequest ==
    /\ Len(requests) < MaxRequests
    /\ \E q \in ConcurrentQueries :
           requests' = Append(requests, [state |-> InitialState(q), pc |-> "validation"])
    /\ ServerFrame

\* Request r's stage ends with an exception before its try block.
RequestRaises(r) ==
    requests' = [requests EXCEPT ![r].pc = "raised"]

\* Request r's stage returns `returned`.
RequestReturns(r, stage, returned) ==
    /\ ~create_llm_raises(env)
    /\ LET written == ApplyWrites(requests[r].state, returned)
       IN  requests' = own_state(requests, r, written, NextNode(stage, written))

StepValidation ==
    /\ \E r \in 1..Len(requests) :
          /\ requests[r].pc = "validation"
          /\ \/ RequestRaises(r)
             \/ \E c \in ConcurrentCompletions("validation") :
                    RequestReturns(r, "validation", validation_agent(requests[r].state, c))
    /\ ServerFrame

StepResearch ==
    /\ \E r \in 1..Len(requests) :
          /\ requests[r].pc = "research"
          /\ \/ RequestRaises(r)
             \/ \E c \in ConcurrentCompletions("research") :
                \E resp \in ConcurrentResponses(c, env) :
                    RequestReturns(r, "research",
                                   research_agent(requests[r].state, c, env, resp))
    /\ ServerFrame

StepStructure ==
    /\ \E r \in 1..Len(requests) :
          /\ requests[r].pc = "structure"
          /\ \/ RequestRaises(r)
             \/ \E c \in ConcurrentCompletions("structure") :
                    RequestReturns(r, "structure", structure_agent(requests[r].state, c))
    /\ ServerFrame

NextServer == StartRequest \/ StepValidation \/ StepResearch \/ StepStructure

SpecServer == InitServer /\ [][NextServer]_vars

----------------------------------------------------------------------------
(* The error text of a failed validation (line 93), character by           *)
(* character: a text is here the sequence of its character codes           *)

ExcerptLimit == 200  \* response.content[:200]
MaxRaw == 230        \* characters of a raw completion

\* "Validation parsing error: "
ErrorPrefix ==
    << 86, 97, 108, 105, 100, 97, 116, 105, 111, 110, 32,
       112, 97, 114, 115, 105, 110, 103, 32,
       101, 114, 114, 111, 114, 58, 32 >>

\* A raw completion of n characters that is no JSON: printable characters
\* that change from one position to the next, none of them a brace.
RawCompletion(n) == [i \in 1..n |-> 33 + (i % 89)]

\* An error text that would carry the whole completion.
validation_error_untruncated(raw) == ErrorPrefix \o raw

\* f"Validation parsing error: {response.content[:200]}"
validation_error(raw) == ErrorPrefix \o Head_n(raw, ExcerptLimit)

InitDiagnostic ==
    /\ \E n \in 0..MaxRaw : content = RawCompletion(n)
    /\ extracted = <<>>
    /\ \E q \in Queries : state = InitialState(q)
    /\ pc = "validation"
    /\ PipelineIdle
    /\ SearchIdle

\* validation_agent's except branch, with the error text spelled out.
FailValidation ==
    /\ pc = "validation"
    /\ state' = [validation_failure(state) EXCEPT !.error = validation_error(content)]
    /\ pc' = "end"
    /\ UNCHANGED <<env, invoked, seen, outcome, discovery, http,
                   content, extracted, search_tool, searches, requests, exports, tmp>>

NextDiagnostic == FailValidation

SpecDiagnostic == InitDiagnostic /\ [][NextDiagnostic]_vars

----------------------------------------------------------------------------
(* export_roadmap: concurrent exports and the files of /tmp               *)

MaxExports == 2

\* str.strip(): the text between its first and its last character that is
\* no white space.
strip(s) ==
    LET inked == {k \in 1..Len(s) : s[k] # " "}
    IN  IF inked = {} THEN <<>>
        ELSE SubSeq(s, CHOOSE k \in inked : \A j \in inked : k <= j,
                       CHOOSE k \in inked : \A j \in inked : j <= k)

replace(s, old, new) == [k \in 1..Len(s) |-> IF s[k] = old THEN new ELSE s[k]]

\* "".join(c for c in title if c.isalnum() or c in (' ', '-', '_')).strip()
\* and then .replace(' ', '_'); the letters of the titles are A and B.
safe_title(title) ==
    replace(strip(SelectSeq(title, LAMBDA c : c \in {"A", "B"} \/ c \in {" ", "-", "_"})),
            " ", "_")

filename(title) == <<"roadmap_">> \o safe_title(title) \o <<".html">>

temp_path(title) == <<"/tmp/">> \o filename(title)

\* The roadmaps of the export requests, with the titles "A B", "A_B" and
\* " A!B": the first two name the same file, and the same title can come
\* with different contents.
ExportRoadmaps ==
    [title : {<<"A", " ", "B">>, <<"A", "_", "B">>, <<" ", "A", "!", "B">>},
     description : {"first", "second"}]

\* The page embeds the title and the whole roadmap, so two roadmaps give two
\* pages.  A page is read back in chunks: the head and the body.
generate_html_export(roadmap) ==
    <<[part |-> "head", roadmap |-> roadmap], [part |-> "body", roadmap |-> roadmap]>>

\* open(temp_path, "w") creates the file or empties the one that is there.
open_w(files, path) ==
    [p \in DOMAIN files \cup {path} |-> IF p = path THEN <<>> ELSE files[p]]

InitExport ==
    /\ PipelineIdle
    /\ state = InitialState(CHOOSE q \in Queries : TRUE)
    /\ pc = "serving"
    /\ ExtractorIdle
    /\ SearchIdle

\* A POST /api/export-roadmap arrives with its roadmap.
ArriveExport ==
    /\ Len(exports) < MaxExports
    /\ \E roadmap \in ExportRoadmaps :
           exports' = Append(exports, [roadmap |-> roadmap, pc |-> "arrived",
                                       delivered |-> <<>>])
    /\ UNCHANGED <<state, pc, env, invoked, seen, outcome, discovery, http,
                    content, extracted, search_tool, searches, requests, tmp>>

\* export_roadmap up to open(temp_path, "w").  The handler has no await: the
\* event loop runs one handler body at a time.
OpenExport(r) ==
    /\ exports[r].pc = "arrived"
    /\ \A o \in DOMAIN exports : exports[o].pc # "opened"
    /\ tmp' = open_w(tmp, temp_path(exports[r].roadmap.title))
    /\ exports' = [exports EXCEPT ![r].pc = "opened"]
    /\ UNCHANGED <<state, pc, env, invoked, seen, outcome, discovery, http,
                    content, extracted, search_tool, searches, requests>>

\* export_roadmap from f.write(html_content) to return FileResponse(...):
\* the response is handed over with the path, not with the content.
ReturnExport(r) ==
    /\ exports[r].pc = "opened"
    /\ tmp' = [tmp EXCEPT ![temp_path(exports[r].roadmap.title)] =
                               generate_html_export(exports[r].roadmap)]
    /\ exports' = [exports EXCEPT ![r].pc = "sending"]
    /\ UNCHANGED <<state, pc, env, invoked, seen, outcome, discovery, http,
                    content, extracted, search_tool, searches, requests>>

\* FileResponse sends the file at temp_path: each step reads the next chunk
\* of what the file holds now, in a worker thread, and the end of the file
\* ends the response.
SendExport(r) ==
    /\ exports[r].pc = "sending"
    /\ LET file == tmp[temp_path(exports[r].roadmap.title)]
           sent == Len(exports[r].delivered)
       IN  exports' =
               IF sent < Len(file)
               THEN [exports EXCEPT ![r].delivered = Append(@, file[sent + 1])]
               ELSE [exports EXCEPT ![r].pc = "done"]
    /\ UNCHANGED <<state, pc, env, invoked, seen, outcome, discovery, http,
                    content, extracted, search_tool, searches, requests, tmp>>

NextExport ==
    \/ ArriveExport
    \/ \E r \in DOMAIN exports : OpenExport(r)
    \/ \E r \in DOMAIN exports : ReturnExport(r)
    \/ \E r \in DOMAIN exports : SendExport(r)

SpecExport == InitExport /\ [][NextExport]_vars

----------------------------------------------------------------------------
(* Properties                                                              *)

StageOrder == <<"validation", "research", "structure">>

IsPrefix(a, b) == Len(a) <= Len(b) /\ SubSeq(b, 1, Len(a)) = a

Returned(stage) == outcome[stage] \in {"returned", "caught"}

\* C1: once a stage has returned with error set, the graph is at END (so
\* generate_roadmap returns), no stage function is invoked any more and no
\* field of the state changes.
C1_ErrorEndsPipeline ==
    /\ [](Truthy(state.error) => pc = "end")
    /\ [][Truthy(state.error) => (state' = state /\ invoked' = invoked)]_vars

C1_Witness ==
    /\ outcome["research"] = "caught"
    /\ Truthy(state.error)
    /\ pc = "end"
    /\ invoked = <<"validation", "research">>

\* C2: a stage whose completion capability failed (create_llm or llm.invoke
\* raised) does not raise: it returns with error set and the graph goes on
\* to return a final state.
C2_CompletionFailureBecomesError ==
    \A st \in Stages :
        outcome[st] = "raised" => (pc # "raised" /\ Truthy(state.error))

\* C3: whatever the completions and discovery results, the pipeline runs the
\* stages in order, each at most once, never stops anywhere but at end, and
\* at end nothing runs any more.
C3_ReachesEndWithinThreeStages ==
    /\ IsPrefix(invoked, StageOrder)
    /\ (pc = "end" \/ ENABLED Next)
    /\ pc = "end" => ~ENABLED Next

\* C4: when validation ends with is_valid false (falsy) and error empty, the
\* pipeline is over after that one stage and research_data, nodes and error
\* are still empty.
C4_InvalidQueryStopsAfterValidation ==
    (Returned("validation") /\ ~Truthy(state.is_valid) /\ ~Truthy(state.error))
        => /\ pc = "end"
           /\ invoked = <<"validation">>
           /\ state.research_data = <<>>
           /\ state.nodes = <<>>
           /\ state.error = ""

C4_Witness ==
    /\ outcome["validation"] = "returned"
    /\ state.is_valid = PyFalse
    /\ state.error = ""
    /\ pc = "end"

\* C5: should_continue equals the transition table read top to bottom (the
\* first row whose condition holds decides), and leaves the state as it was.
C5_TableRows(s) ==
    LET agent == IF "current_agent" \in DOMAIN s THEN s.current_agent ELSE ""
        error_set == "error" \in DOMAIN s /\ s.error # ""
        valid == "is_valid" \in DOMAIN s /\ Truthy(s.is_valid)
    IN  << <<error_set, "end">>,
           <<agent = "", "validation">>,
           <<agent = "validation" /\ ~valid, "end">>,
           <<agent = "validation", "research">>,
           <<agent = "research", "structure">>,
           <<agent = "structure", "end">>,
           <<TRUE, "end">> >>

C5_Table(s) ==
    LET rows == C5_TableRows(s)
        first == CHOOSE i \in 1..Len(rows) :
                     rows[i][1] /\ \A j \in 1..(i - 1) : ~rows[j][1]
    IN  rows[first][2]

C5_RouterIsTheTable ==
    /\ [](pc # "router" => pc = C5_Table(state))
    /\ [][state' = state]_vars

C5_Witness ==
    /\ pc = "end"
    /\ "error" \in DOMAIN state /\ state.error # ""
    /\ "current_agent" \in DOMAIN state /\ state.current_agent = "research"

\* C6: current_agent only ever steps to the next tag of
\* "" -> validation -> research -> structure.
AgentRank(a) ==
    CASE a = "" -> 0 [] a = "validation" -> 1 [] a = "research" -> 2
      [] a = "structure" -> 3 [] OTHER -> 9

C6_CurrentAgentMovesForward ==
    [][\/ state'.current_agent = state.current_agent
       \/ /\ AgentRank(state'.current_agent) <= 3
          /\ AgentRank(state'.current_agent) = AgentRank(state.current_agent) + 1]_vars

C6_Witness == state.current_agent = "structure" /\ invoked = StageOrder

\* C7: a validation completion with no parseable JSON object (or one whose
\* processing raises) leaves is_valid false, the diagnostic in
\* validation_message and error non-empty, and ends the pipeline there.
C7_UnparseableValidationFails ==
    seen["validation"].shape \in {"prose", "array", "scalar"}
        => /\ state.is_valid = PyFalse
           /\ state.validation_message = ValidationDiagnostic
           /\ Truthy(state.error)
           /\ pc = "end"
           /\ invoked = <<"validation">>

C7_Witness ==
    /\ seen["validation"].shape = "prose"
    /\ state.error = ValidationError
    /\ pc = "end"

\* C8: a validation completion that parses to an object sets is_valid and
\* validation_message from its is_valid and message keys (False and "" when
\* a key is absent), sets current_agent to validation and leaves error empty.
C8_ParsedValidationSetsFields ==
    seen["validation"].shape = "object"
        => LET obj == seen["validation"].value
           IN  /\ state.is_valid =
                      (IF "is_valid" \in DOMAIN obj THEN obj.is_valid ELSE PyFalse)
               /\ state.validation_message =
                      (IF "message" \in DOMAIN obj THEN obj.message ELSE "")
               /\ invoked = <<"validation">>
                      => state.current_agent = "validation" /\ state.error = ""

C8_Witness ==
    /\ seen["validation"].shape = "object"
    /\ DOMAIN seen["validation"].value = {"message"}
    /\ invoked = <<"validation">>
    /\ state.is_valid = PyFalse
    /\ state.validation_message = "why"
    /\ state.current_agent = "validation"

\* C9: when the decomposition cannot be parsed or processing it raises,
\* research_agent returns (it does not raise) with error non-empty and
\* research_data empty, and the pipeline ends without Structuring.
C9_FailedResearchEndsPipeline ==
    (\/ seen["research"].shape \in {"prose", "array"}
     \/ /\ seen["research"].shape = "object"
        /\ EnrichmentRaises(seen["research"].value, env.search_enabled))
        => /\ outcome["research"] = "caught"
           /\ Truthy(state.error)
           /\ state.research_data = <<>>
           /\ pc = "end"
           /\ invoked = <<"validation", "research">>

C9_Witness ==
    /\ seen["research"].shape = "object"
    /\ TopicTitleMissing(seen["research"].value)
    /\ env.search_enabled
    /\ state.error = ResearchError
    /\ pc = "end"

\* C10: research_data is append-only: every step leaves the old list as a
\* prefix of the new one, and a successful Research stage adds exactly one
\* entry, the tree of the decomposition it received.
C10_ResearchDataAppendOnly ==
    [][/\ IsPrefix(state.research_data, state'.research_data)
       /\ (outcome["research"] = "none" /\ outcome'["research"] = "returned")
            => /\ Len(state'.research_data) = Len(state.research_data) + 1
               /\ Len(TopicsOf(state'.research_data[Len(state'.research_data)]))
                    = Len(TopicsOf(seen'["research"].value))]_vars

C10_Witness ==
    /\ outcome["research"] = "returned"
    /\ Len(state.research_data) >= 1
    /\ Len(TopicsOf(state.research_data[1])) = 1

----------------------------------------------------------------------------
(* Properties of the Research stage's enrichment                           *)

\* Research returned from its try block; tree is the entry it appended.
ResearchTree == state.research_data[1]
ResearchTopics == TopicsOf(ResearchTree)

TypesOf(resources) == {resources[k].type : k \in 1..Len(resources)}
OfType(resources, type) == SelectSeq(resources, LAMBDA r : r.type = type)

\* The case of C11: the tool is active, the decomposition is well formed and
\* has a topic, the video request raised and the course requests succeeded
\* with results.
C11_Case ==
    /\ seen["research"].shape = "object"
    /\ ~EnrichmentRaises(seen["research"].value, env.search_enabled)
    /\ Len(TopicsOf(seen["research"].value)) >= 1
    /\ env.search_enabled /\ env.serper_key
    /\ discovery.resp["video"].status = "raise"
    /\ discovery.resp["course"].status = "ok"
    /\ discovery.resp["course"].organic # <<>>

\* C11 as stated: in that case Research completes without error and every
\* topic's resource list is non-empty and holds only the course results.
C11_OnlyCourseResults ==
    C11_Case
        => /\ outcome["research"] = "returned"
           /\ \A i \in 1..Len(ResearchTopics) :
                  /\ ResearchTopics[i].resources # <<>>
                  /\ TypesOf(ResearchTopics[i].resources) = {"course"}

\* C11 amended: in that case Research completes without error and every
\* topic's resource list is non-empty, holds the course results first and,
\* after them, only documentation results: no video result, and exactly the
\* course results when the documentation search found nothing.
C11_CourseResultsSurvive ==
    C11_Case
        => /\ outcome["research"] = "returned"
           /\ Len(state.research_data) >= 1
           /\ \A i \in 1..Len(ResearchTopics) :
                  LET resources == ResearchTopics[i].resources
                      courses == OfType(resources, "course")
                  IN  /\ courses # <<>>
                      /\ TypesOf(resources) \subseteq {"course", "documentation"}
                      /\ resources = courses \o OfType(resources, "documentation")
                      /\ discovery.resp["documentation"].status # "ok"
                             => resources = courses

C11_Witness ==
    /\ C11_Case
    /\ discovery.resp["documentation"].status = "raise"
    /\ outcome["research"] = "returned"
    /\ TypesOf(ResearchTopics[1].resources) = {"course"}

\* The calls discovery.calls holds for the topic titled `title`.
TopicCallMethods(title) ==
    {discovery.calls[k].method :
        k \in {n \in 1..Len(discovery.calls) : discovery.calls[n].query = <<title>>}}

C13_Case ==
    /\ outcome["research"] = "returned"
    /\ env.search_enabled

C13_Expected(kind, max_results) ==
    LET active == SerperSearchTool(env)
        resp == discovery.resp[kind]
    IN  CASE kind = "video"  -> search_youtube(active, <<>>, max_results, resp)
          [] kind = "course" -> search_courses(active, <<>>, max_results, PerPlatform(resp))
          [] kind = "documentation" -> search_documentation(active, <<>>, max_results, resp)
          [] kind = "book"   -> search_books(active, <<>>, max_results, resp)

\* C13 as stated: with discovery enabled every topic is searched for all four
\* kinds with its title, and its resource list is the concatenation of the
\* results of all four kinds.
C13_ResourcesAreAllFourKinds ==
    C13_Case
        => \A i \in 1..Len(ResearchTopics) :
               /\ TopicCallMethods(ResearchTopics[i].title) =
                      {"search_youtube", "search_courses",
                       "search_documentation", "search_books"}
               /\ ResearchTopics[i].resources =
                      C13_Expected("video", 4) \o C13_Expected("course", 3)
                      \o C13_Expected("documentation", 2) \o C13_Expected("book", 3)

\* C13 amended: with discovery enabled every topic is searched for all four
\* kinds with its title; its resource list is the concatenation of the video,
\* course and documentation results, and the book results are stored apart,
\* under the topic's "books" key.
C13_ResourcesAreThreeKindsBooksApart ==
    C13_Case
        => \A i \in 1..Len(ResearchTopics) :
               /\ TopicCallMethods(ResearchTopics[i].title) =
                      {"search_youtube", "search_courses",
                       "search_documentation", "search_books"}
               /\ ResearchTopics[i].resources =
                      C13_Expected("video", 4) \o C13_Expected("course", 3)
                      \o C13_Expected("documentation", 2)
               /\ ResearchTopics[i].books = C13_Expected("book", 3)

C13_Witness ==
    /\ C13_Case
    /\ Len(ResearchTopics) >= 1
    /\ TypesOf(ResearchTopics[1].resources) = {"video", "course", "documentation"}
    /\ TypesOf(ResearchTopics[1].books) = {"book"}

C14_Case ==
    /\ outcome["research"] = "returned"
    /\ ~env.search_enabled

\* C14: with discovery disabled by the flag, a successful Research leaves every
\* subtopic with exactly one resource, the placeholder course named after the
\* subtopic at the placeholder URL, and makes no discovery call.
C14_PlaceholderPerSubtopic ==
    C14_Case
        => /\ discovery.calls = <<>>
           /\ \A i \in 1..Len(ResearchTopics) :
                  \A j \in 1..Len(SubtopicsOf(ResearchTopics[i])) :
                      LET subtopic == ResearchTopics[i].subtopics[j]
                      IN  /\ Len(subtopic.resources) = 1
                          /\ subtopic.resources[1].type = "course"
                          /\ subtopic.resources[1].url = "https://example.com"
                          /\ subtopic.resources[1].title = <<"Learn", subtopic.title>>

C14_Witness ==
    /\ C14_Case
    /\ Len(ResearchTopics) >= 1
    /\ Len(SubtopicsOf(ResearchTopics[1])) >= 1
    /\ Len(ResearchTopics[1].subtopics[1].resources) = 1

----------------------------------------------------------------------------
(* The Structuring stage                                                   *)

StructureSeen == seen["structure"]
StructureEntries == NodeListOf(StructureSeen.value)

\* The completion is no JSON, or no JSON object, or an entry of its node
\* list lacks a required field, or a resource of an entry does.
C15_Case ==
    /\ StructureSeen # NoCompletion
    /\ \/ StructureSeen.shape # "object"
       \/ \E i \in 1..Len(StructureEntries) :
              \/ \E f \in {"id", "title", "description", "level"} :
                     f \notin DOMAIN StructureEntries[i]
              \/ \E k \in 1..Len(ResourcesOf(StructureEntries[i])) :
                     \E f \in {"title", "url", "type", "description"} :
                         f \notin DOMAIN ResourcesOf(StructureEntries[i])[k]

\* C15: when the Structuring completion cannot be parsed or an entry of the
\* node list fails conversion, structure_agent returns (it does not raise)
\* with nodes empty, however many entries were converted before the failing
\* one, with error set, and with current_agent not advanced to structure.
C15_StructureFailureIsCaught ==
    C15_Case =>
        /\ pc = "end"
        /\ outcome["structure"] = "caught"
        /\ state.nodes = <<>>
        /\ Truthy(state.error)
        /\ state.current_agent # "structure"

\* An entry that converts is followed by one that lacks its id.
C15_Witness ==
    /\ C15_Case
    /\ Len(StructureEntries) = 2
    /\ ~NodeRaises(StructureEntries[1])
    /\ "id" \notin DOMAIN StructureEntries[2]
    /\ state.nodes = <<>>
    /\ Truthy(state.error)

\* parent_id, resources, prerequisites, estimated_time of an entry, with
\* the defaults of the RoadmapNode model for the absent ones.
C16_Expected(entry) ==
    [ id             |-> entry.id,
      title          |-> entry.title,
      description    |-> entry.description,
      level          |-> entry.level,
      parent_id      |-> IF "parent_id" \in DOMAIN entry THEN entry.parent_id ELSE PyNone,
      prerequisites  |-> IF "prerequisites" \in DOMAIN entry THEN entry.prerequisites ELSE <<>>,
      estimated_time |-> IF "estimated_time" \in DOMAIN entry THEN entry.estimated_time ELSE PyNone ]

C16_Fields == {"id", "title", "description", "level", "parent_id",
               "prerequisites", "estimated_time"}

C16_SameResource(typed, raw) ==
    \A f \in DOMAIN raw : typed[f] = raw[f]

C16_Case == outcome["structure"] = "returned"

\* C16: on a successful Structuring stage roadmap_structure is the parsed
\* object and nodes has one typed node per entry of the parsed node list, in
\* order, with the entry's fields, the entry's resources in order, and the
\* defaults for the absent optional fields.
C16_NodesMirrorParsedList ==
    C16_Case =>
        /\ state.roadmap_structure = StructureSeen.value
        /\ state.current_agent = "structure"
        /\ Len(state.nodes) = Len(StructureEntries)
        /\ \A i \in 1..Len(StructureEntries) :
               LET node == state.nodes[i]
                   entry == StructureEntries[i]
                   raw == IF "resources" \in DOMAIN entry THEN entry.resources ELSE <<>>
               IN  /\ \A f \in C16_Fields : node[f] = C16_Expected(entry)[f]
                   /\ Len(node.resources) = Len(raw)
                   /\ \A k \in 1..Len(raw) : C16_SameResource(node.resources[k], raw[k])

\* Two entries: one with only the required fields, one with everything.
C16_Witness ==
    /\ C16_Case
    /\ Len(state.nodes) = 2
    /\ \E i \in 1..2 : "parent_id" \notin DOMAIN StructureEntries[i]
                        /\ state.nodes[i].resources = <<>>
    /\ \E i \in 1..2 : Len(state.nodes[i].resources) = 1
                        /\ state.nodes[i].prerequisites # <<>>

----------------------------------------------------------------------------
(* The HTTP layer                                                          *)

\* create_roadmap has answered for a pipeline run that returned a state.
Answered == http # 0 /\ pc = "end"

\* C17: every final state with error set is answered with 500, never 400.
C17_ErrorMeansServerError ==
    (Answered /\ Truthy(state.error)) => http = 500

\* C18: is_valid false and error empty gives 400; is_valid true, error
\* empty and nodes empty gives 500; a roadmap (200) is answered only when
\* is_valid is true, error is empty and nodes is non-empty.
C18_StatusMapping ==
    /\ (Answered /\ ~Truthy(state.is_valid) /\ ~Truthy(state.error)) => http = 400
    /\ (Answered /\ Truthy(state.is_valid) /\ ~Truthy(state.error)
                 /\ state.nodes = <<>>) => http = 500
    /\ http = 200 => /\ pc = "end"
                     /\ Truthy(state.is_valid)
                     /\ ~Truthy(state.error)
                     /\ state.nodes # <<>>

\* A valid query whose Structuring stage succeeded with no node at all.
C18_Witness ==
    /\ Answered
    /\ Truthy(state.is_valid)
    /\ ~Truthy(state.error)
    /\ state.nodes = <<>>
    /\ outcome["structure"] = "returned"
    /\ http = 500

----------------------------------------------------------------------------
(* The discovery calls                                                     *)

\* The requests of a logged call that were sent: none on a disabled tool;
\* search_courses sends a platform's request unless an earlier one raised
\* or max_results courses are already collected.
RECURSIVE CoursesCollected(_, _)
CoursesCollected(resps, i) ==
    IF i = 0 THEN 0
    ELSE CoursesCollected(resps, i - 1)
         + (IF resps[i].status = "ok" THEN Min(2, Len(resps[i].organic)) ELSE 0)

RequestsSent(call) ==
    IF ~search_tool.search_enabled THEN {}
    ELSE IF call.method # "search_courses" THEN {1}
    ELSE {i \in 1..Len(call.resps) :
             /\ \A j \in 1..(i - 1) : call.resps[j].status # "raise"
             /\ CoursesCollected(call.resps, i - 1) < call.max_results}

RequestFailed(call) ==
    \E i \in RequestsSent(call) : call.resps[i].status # "ok"

RequestRaised(call) ==
    \E i \in RequestsSent(call) : call.resps[i].status = "raise"

\* What a call on its own, on a tool built from the same environment,
\* returns for the call's provider behaviour.
Alone(call) ==
    discovery_call(search_tool, call.method, call.max_results, call.resps).value

\* C12 as stated: no call raises, a call any of whose requests failed
\* returns the empty list, and no call's result depends on the other calls.
C12_AnyFailureGivesEmptyList ==
    \A n \in 1..Len(searches) :
        /\ ~searches[n].raised
        /\ RequestFailed(searches[n]) => searches[n].value = <<>>
        /\ searches[n].value = Alone(searches[n])

\* C12: no discovery call raises; a call one of whose requests (or the
\* processing of its response) raised returns the empty list; a call of
\* search_youtube, search_documentation or search_books whose request was
\* answered with a status other than 200 returns the empty list, while
\* search_courses skips such a platform and returns the courses of the
\* others (the empty list when no platform answered 200); and no call's
\* result depends on the calls before it.
C12_CallsNeverRaiseAndAreIsolated ==
    \A n \in 1..Len(searches) :
        LET call == searches[n]
        IN  /\ ~call.raised
            /\ RequestRaised(call) => call.value = <<>>
            /\ (call.method # "search_courses" /\ RequestFailed(call))
                   => call.value = <<>>
            /\ (call.method = "search_courses"
                /\ \A i \in RequestsSent(call) : call.resps[i].status # "ok")
                   => call.value = <<>>
            /\ (call.method = "search_courses" /\ ~RequestRaised(call)
                /\ search_tool.search_enabled)
                   => \A i \in 1..Len(call.resps) :
                          call.resps[i].status = "ok" =>
                              \E k \in 1..Len(call.value) :
                                  call.value[k].source = Platforms[i]
            /\ call.value = Alone(call)

\* A call whose request raised, then a call that found something.
C12_Witness ==
    /\ search_tool.search_enabled
    /\ Len(searches) = 2
    /\ RequestRaised(searches[1])
    /\ searches[1].value = <<>>
    /\ ~RequestFailed(searches[2])
    /\ searches[2].value # <<>>

----------------------------------------------------------------------------
(* The Payload Extractor                                                   *)

\* The position of the brace that closes the object opened before i, read
\* as JSON reads it: braces inside a string do not count, and a fence or a
\* tag outside a string is no JSON.  0 when there is none.
RECURSIVE MatchingClose(_, _, _, _)
MatchingClose(text, i, depth, in_string) ==
    IF i > Len(text) THEN 0
    ELSE IF in_string
         THEN MatchingClose(text, i + 1, depth, text[i] # Quote)
    ELSE IF text[i] = Quote THEN MatchingClose(text, i + 1, depth, TRUE)
    ELSE IF text[i] \in {Fence, Tag} THEN 0
    ELSE IF text[i] = Open THEN MatchingClose(text, i + 1, depth + 1, FALSE)
    ELSE IF text[i] = Close
         THEN IF depth = 1 THEN i ELSE MatchingClose(text, i + 1, depth - 1, FALSE)
    ELSE MatchingClose(text, i + 1, depth, FALSE)

ObjectEnd(text, open) ==
    IF open <= Len(text) /\ text[open] = Open
    THEN MatchingClose(text, open + 1, 1, FALSE)
    ELSE 0

\* The whole text is one object.
IsBareObject(text) == text # <<>> /\ ObjectEnd(text, 1) = Len(text)

\* <<open, close>> of the object that the first fence of the text (tagged
\* or not) opens on and that a fence closes, if there is one.
FencedObjects(text) ==
    { <<open, close>> \in (1..Len(text)) \X (1..Len(text)) :
        /\ \E s \in 1..Len(text) :
              /\ text[s] = Fence
              /\ \A r \in 1..(s - 1) : text[r] # Fence
              /\ open = SkipSpace(text, SkipTag(text, s + 1))
        /\ close = ObjectEnd(text, open)
        /\ LET f == SkipSpace(text, close + 1)
           IN  f <= Len(text) /\ text[f] = Fence }

Extracted == pc = "extracted"

\* C19: extract_json returns a bare JSON object as it is, whatever its
\* string values hold.
C19_IdentityOnBareObject ==
    (Extracted /\ IsBareObject(content)) => extracted = content

\* C20: on a text with a fenced block that wraps an object, extract_json
\* returns that object, from its opening brace to its matching closing
\* brace, whatever brace span is elsewhere in the text.  Stated for the
\* texts whose first fence opens the block.
C20_FencedObjectIsReturned ==
    (Extracted /\ FencedObjects(content) # {}) =>
        \E span \in FencedObjects(content) :
            extracted = SubSeq(content, span[1], span[2])

\* The text holds, somewhere, a fence, an optional tag, whitespace, an
\* opening brace, later a closing brace, whitespace and a fence: a fenced
\* brace-delimited span, read as text.
Positions(text, token) == {i \in 1..Len(text) : text[i] = token}

HasFencedSpan(text) ==
    \E s \in Positions(text, Fence) :
    \E open \in {i \in Positions(text, Open) : i > s} :
        /\ \A i \in (s + 1)..(open - 1) :
               text[i] = Space \/ (i = s + 1 /\ text[i] = Tag)
        /\ \E close \in {i \in Positions(text, Close) : i > open} :
           \E f \in {i \in Positions(text, Fence) : i > close} :
               \A i \in (close + 1)..(f - 1) : text[i] = Space

\* The text has an opening brace with a closing brace somewhere after it.
HasBraceSpan(text) ==
    \E i, j \in 1..Len(text) : i < j /\ text[i] = Open /\ text[j] = Close

FirstOpen(text) ==
    CHOOSE i \in 1..Len(text) : text[i] = Open /\ \A j \in 1..(i - 1) : text[j] # Open

LastClose(text) ==
    CHOOSE i \in 1..Len(text) :
        text[i] = Close /\ \A j \in (i + 1)..Len(text) : text[j] # Close

IsSubstring(part, text) ==
    \E from \in 1..(Len(text) + 1) :
        \E to \in (from - 1)..Len(text) : part = SubSeq(text, from, to)

\* C21: on a text with no fenced span extract_json returns the span from
\* the first opening brace to the last closing brace; on a text with no
\* such span it returns the text; and what it returns is always a
\* contiguous part of the text.
C21_BraceSpanOrInput ==
    Extracted =>
        /\ (~HasFencedSpan(content) /\ HasBraceSpan(content)) =>
               extracted = SubSeq(content, FirstOpen(content), LastClose(content))
        /\ (~HasFencedSpan(content) /\ ~HasBraceSpan(content)) =>
               extracted = content
        /\ IsSubstring(extracted, content)

\* Prose around an object with a nested closing brace, no fence.
C21_Witness ==
    /\ Extracted
    /\ ~HasFencedSpan(content)
    /\ HasBraceSpan(content)
    /\ content[1] # Open
    /\ content[Len(content)] # Close
    /\ \E i \in FirstOpen(content)..(LastClose(content) - 1) : content[i] = Close
    /\ extracted = SubSeq(content, FirstOpen(content), LastClose(content))

----------------------------------------------------------------------------
(* Concurrent requests                                                     *)

\* Request r is where a stage of its graph has just run.
StageRan(r) == requests'[r].pc # requests[r].pc

\* C22: a request starts from its own state with every field at its
\* default, and a stage execution of one request changes no field of the
\* state of any other request, in every interleaving of the requests.
C22_RequestsShareNoState ==
    /\ [](\A r \in 1..Len(requests) :
             requests[r].pc = "validation" =>
                 /\ requests[r].state.is_valid = PyFalse
                 /\ requests[r].state.validation_message = ""
                 /\ requests[r].state.research_data = <<>>
                 /\ requests[r].state.roadmap_structure = EmptyDict
                 /\ requests[r].state.nodes = <<>>
                 /\ requests[r].state.current_agent = ""
                 /\ requests[r].state.error = "")
    /\ [][\A r, o \in 1..Len(requests) :
             (r # o /\ StageRan(r)) => requests'[o] = requests[o]]_vars

\* One request has ended with an error while the other, started before or
\* after it, has ended with nodes.
C22_Witness ==
    /\ Len(requests) = 2
    /\ \E r, o \in 1..2 :
          /\ requests[r].pc = "end" /\ Truthy(requests[r].state.error)
          /\ requests[o].pc = "end" /\ requests[o].state.nodes # <<>>
          /\ requests[o].state.error = ""

----------------------------------------------------------------------------
(* Stage preconditions                                                     *)

Invoked(stage) == \E i \in 1..Len(invoked) : invoked[i] = stage

\* C23: research_agent is invoked only after the Validation stage has
\* completed with is_valid the boolean true; with is_valid false, absent
\* or not a boolean, Research does not run.
C23_ResearchOnlyWhenValidIsTrue ==
    Invoked("research") =>
        /\ outcome["validation"] = "returned"
        /\ "is_valid" \in DOMAIN seen["validation"].value
        /\ seen["validation"].value.is_valid = PyTrue
        /\ state.is_valid = PyTrue

\* Every topic of the tree has its resources and books, every subtopic its
\* resources.
EnrichmentAttached(tree) ==
    \A i \in 1..Len(TopicsOf(tree)) :
        LET topic == TopicsOf(tree)[i]
        IN  /\ {"resources", "books"} \subseteq DOMAIN topic
            /\ \A j \in 1..Len(SubtopicsOf(topic)) :
                   "resources" \in DOMAIN SubtopicsOf(topic)[j]

\* C24: structure_agent begins only once research_agent has returned with
\* every topic's and subtopic's enrichment attached, with research_data
\* non-empty and error empty; and the stages of a request run one at a
\* time, each step being the run of the one node the graph is at.
C24_StructureAfterResearchJoin ==
    /\ [](pc = "structure" =>
             /\ outcome["research"] = "returned"
             /\ invoked = <<"validation", "research">>
             /\ state.research_data # <<>>
             /\ \A k \in 1..Len(state.research_data) :
                    EnrichmentAttached(state.research_data[k])
             /\ ~Truthy(state.error))
    /\ [](Invoked("structure") => outcome["research"] = "returned")
    /\ [][/\ pc \in Stages
          /\ invoked' = Append(invoked, pc)
          /\ \A st \in Stages \ {pc} : outcome'[st] = outcome[st]]_vars

\* Structuring is about to begin on a tree with a topic and a subtopic.
C24_Witness ==
    /\ pc = "structure"
    /\ Len(state.research_data) = 1
    /\ Len(TopicsOf(state.research_data[1])) = 1
    /\ Len(SubtopicsOf(TopicsOf(state.research_data[1])[1])) = 1
    /\ EnrichmentAttached(state.research_data[1])

----------------------------------------------------------------------------
(* Discovery switched off by configuration                                 *)

\* The flag is off, or it is on and no search API key is configured.
UnavailableByConfiguration == ~env.search_enabled \/ ~env.serper_key

\* C25: when discovery is unavailable by configuration alone, no topic and
\* no subtopic of the research_data of a successful Research stage has an
\* empty resource list.
C25_NoEmptyResourcesByConfiguration ==
    (outcome["research"] = "returned" /\ UnavailableByConfiguration) =>
        \A i \in 1..Len(ResearchTopics) :
            /\ ResearchTopics[i].resources # <<>>
            /\ \A j \in 1..Len(SubtopicsOf(ResearchTopics[i])) :
                   SubtopicsOf(ResearchTopics[i])[j].resources # <<>>

----------------------------------------------------------------------------
(* Node lists that are no tree                                             *)

\* The parsed node list converts, entry by entry, and breaks a tree
\* invariant: an id twice, no level-0 node or several, a parent id or a
\* prerequisite id that is no node's id.
C26_Case ==
    /\ StructureSeen.shape = "object"
    /\ StructureEntries # <<>>
    /\ \A i \in 1..Len(StructureEntries) : ~NodeRaises(StructureEntries[i])
    /\ ~TreeInvariants(StructureEntries)

\* C26: such a node list is converted and stored in nodes as it is, with
\* error empty and current_agent = structure.
C26_BrokenTreePassesThrough ==
    C26_Case =>
        /\ outcome["structure"] = "returned"
        /\ Len(state.nodes) = Len(StructureEntries)
        /\ \A i \in 1..Len(StructureEntries) :
               /\ state.nodes[i].id = StructureEntries[i].id
               /\ state.nodes[i].level = StructureEntries[i].level
               /\ state.nodes[i].parent_id = Get(StructureEntries[i], "parent_id", PyNone)
               /\ state.nodes[i].prerequisites = Get(StructureEntries[i], "prerequisites", <<>>)
        /\ state.error = ""
        /\ state.current_agent = "structure"

\* Two level-0 nodes with the same id.
C26_Witness ==
    /\ C26_Case
    /\ Len(state.nodes) = 2
    /\ state.nodes[1].id = state.nodes[2].id
    /\ state.nodes[1].level = 0 /\ state.nodes[2].level = 0
    /\ state.error = ""

----------------------------------------------------------------------------
(* Result caps                                                             *)

\* max_results as research_agent passes it, for a topic and for a subtopic.
TopicCap(type) ==
    CASE type = "video" -> 4 [] type = "course" -> 3
      [] type = "documentation" -> 2 [] type = "book" -> 3

SubtopicCap(type) ==
    CASE type = "video" -> 2 [] type = "course" -> 1 [] type = "documentation" -> 1

MethodOfKind(type) ==
    CASE type = "video" -> "search_youtube" [] type = "course" -> "search_courses"
      [] type = "documentation" -> "search_documentation" [] type = "book" -> "search_books"

\* What the discovery call `call` of research_agent returned, given the
\* provider's responses of this run.
ReturnedBy(call, type) ==
    discovery_call(SerperSearchTool(env), call.method, call.max_results,
                   IF type = "course" THEN PerPlatform(discovery.resp[type])
                   ELSE <<discovery.resp[type]>>).value

C27_Case ==
    /\ outcome["research"] = "returned"
    /\ SerperSearchTool(env).search_enabled

\* C27: every discovery call returns at most max_results records, so each
\* topic has at most 4 videos, 3 courses, 2 documentation results and 3
\* books, and each subtopic at most 2 videos, 1 course and 1 documentation
\* result, however many results the provider returns.
C27_ResultsWithinCaps ==
    C27_Case =>
        /\ \A n \in 1..Len(discovery.calls) :
           \A type \in Kinds :
               discovery.calls[n].method = MethodOfKind(type) =>
                   Len(ReturnedBy(discovery.calls[n], type)) <= discovery.calls[n].max_results
        /\ \A i \in 1..Len(ResearchTopics) :
               LET topic == ResearchTopics[i]
               IN  /\ \A type \in Kinds \ {"book"} :
                          Len(OfType(topic.resources, type)) <= TopicCap(type)
                   /\ Len(topic.books) <= TopicCap("book")
                   /\ \A j \in 1..Len(SubtopicsOf(topic)) :
                      \A type \in Kinds \ {"book"} :
                          /\ Len(OfType(SubtopicsOf(topic)[j].resources, type))
                                 <= SubtopicCap(type)
                          /\ SubtopicCap(type) < TopicCap(type)

\* The provider returned more results of every kind than any cap, and the
\* topic and its subtopic hold fewer than it returned.
C27_Witness ==
    /\ C27_Case
    /\ \A type \in Kinds : /\ discovery.resp[type].status = "ok"
                           /\ Len(discovery.resp[type].organic) > TopicCap(type)
    /\ Len(ResearchTopics) = 1
    /\ Len(OfType(ResearchTopics[1].resources, "course")) = 3
    /\ Len(ResearchTopics[1].books) = 3
    /\ Len(SubtopicsOf(ResearchTopics[1])) = 1
    /\ Len(OfType(SubtopicsOf(ResearchTopics[1])[1].resources, "video")) = 1
    /\ Len(OfType(SubtopicsOf(ResearchTopics[1])[1].resources, "course")) = 1

----------------------------------------------------------------------------
(* The error text of a failed validation                                   *)

ValidationFailed == pc = "end" /\ state.is_valid = PyFalse

\* C28 as stated: the error is an excerpt of the raw completion and has at
\* most 200 characters.
C28_ErrorIsExcerptOfAtMost200 ==
    ValidationFailed =>
        /\ Len(state.error) <= 200
        /\ IsSubstring(state.error, content)

\* C28: the error is the text "Validation parsing error: " followed by the
\* first 200 characters of the raw completion, or by all of it when it is
\* shorter: at most 226 characters for a completion of any length.
C28_ErrorIsPrefixAndExcerpt ==
    ValidationFailed =>
        LET kept == IF Len(content) <= 200 THEN Len(content) ELSE 200
        IN  /\ Len(state.error) = 26 + kept
            /\ SubSeq(state.error, 1, 26) = ErrorPrefix
            /\ \A i \in 1..kept : state.error[26 + i] = content[i]
            /\ Len(state.error) <= 226

\* A completion longer than the excerpt.
C28_Witness ==
    /\ ValidationFailed
    /\ Len(content) > 200
    /\ Len(state.error) = 226

----------------------------------------------------------------------------
(* Fields a stage leaves alone                                             *)

\* C29: no stage changes query, and research_agent and structure_agent
\* change neither is_valid nor validation_message, whether they succeed or
\* fail.
C29_QueryAndVerdictAreKept ==
    [][/\ state'.query = state.query
       /\ pc \in {"research", "structure"} =>
              /\ state'.is_valid = state.is_valid
              /\ state'.validation_message = state.validation_message]_vars

\* Research succeeded and Structuring failed, with the verdict and the
\* message of the Validation stage still in place.
C29_Witness ==
    /\ outcome["research"] = "returned"
    /\ outcome["structure"] = "caught"
    /\ state.is_valid = Get(seen["validation"].value, "is_valid", PyFalse)
    /\ Truthy(state.is_valid)
    /\ state.validation_message = "why"
    /\ state.query \in Queries

----------------------------------------------------------------------------
(* Routing after a stage                                                   *)

LastStage == invoked[Len(invoked)]

\* The key should_continue gives for the state the last stage returned.
RoutingKey == should_continue(state)

\* C30: after each stage that returned, should_continue's value is a key
\* of that stage's edge mapping (research or end after validation,
\* structure or end after research, end after structure); a stage that
\* failed left error set, so that the key is end, never the stage itself
\* and never an unmapped one.
C30_RoutingKeyIsMapped ==
    (invoked # <<>> /\ Returned(LastStage)) =>
        /\ RoutingKey \in EdgeKeys(LastStage)
        /\ pc = RoutingKey
        /\ LastStage = "validation" => RoutingKey \in {"research", "end"}
        /\ LastStage = "research" => RoutingKey \in {"structure", "end"}
        /\ LastStage = "structure" => RoutingKey = "end"
        /\ outcome[LastStage] = "caught" =>
               /\ Truthy(state.error)
               /\ RoutingKey = "end"

\* Structuring failed after two stages that succeeded.
C30_Witness ==
    /\ invoked = <<"validation", "research", "structure">>
    /\ outcome["structure"] = "caught"
    /\ state.current_agent = "research"
    /\ RoutingKey = "end"
    /\ pc = "end"

----------------------------------------------------------------------------
(* research_data under the additive merge                                  *)

FullySuccessful ==
    /\ pc = "end"
    /\ \A st \in Stages : outcome[st] = "returned"

\* C31: the Validation and Structuring stages leave research_data as it
\* is, so that the final state of a fully successful run holds exactly one
\* topic tree in research_data.
C31_OneTopicTreeAtEnd ==
    FullySuccessful => Len(state.research_data) = 1

----------------------------------------------------------------------------
(* roadmap_structure                                                       *)

\* C32: roadmap_structure is non-empty only where the Structuring stage
\* completed (current_agent = structure, error empty); a Structuring stage
\* that fails, at the parse or at the conversion, leaves it empty.
C32_StructureStoredOnlyOnSuccess ==
    /\ DOMAIN state.roadmap_structure # {} =>
           /\ state.current_agent = "structure"
           /\ ~Truthy(state.error)
    /\ outcome["structure"] = "caught" => DOMAIN state.roadmap_structure = {}

----------------------------------------------------------------------------
(* Invariants of the pipeline state                                        *)

\* C33: in every reachable state, nodes non-empty implies error empty,
\* is_valid true and current_agent = structure; error non-empty implies
\* nodes empty; and current_agent = X implies that stage X and every stage
\* before it returned without setting error.
C33_StateInvariants ==
    /\ state.nodes # <<>> =>
           /\ ~Truthy(state.error)
           /\ Truthy(state.is_valid)
           /\ state.current_agent = "structure"
    /\ Truthy(state.error) => state.nodes = <<>>
    /\ \A st \in Stages :
           state.current_agent = st =>
               \A before \in Stages :
                   AgentRank(before) <= AgentRank(st) => outcome[before] = "returned"

\* Structuring failed after nodes of an earlier entry had been converted:
\* error is set, nodes is empty and current_agent is still research.
C33_Witness ==
    /\ outcome["structure"] = "caught"
    /\ Len(StructureEntries) = 2
    /\ ~NodeRaises(StructureEntries[1])
    /\ Truthy(state.error)
    /\ state.nodes = <<>>
    /\ state.current_agent = "research"
    /\ outcome["research"] = "returned"

----------------------------------------------------------------------------
(* Properties of concurrent exports                                        *)

SameFile(a, b) ==
    temp_path(exports[a].roadmap.title) = temp_path(exports[b].roadmap.title)

\* C34: when export requests whose titles sanitize to the same filename are
\* handled concurrently, every finished response has delivered exactly the
\* HTML generated from its own request's roadmap, whatever the interleaving
\* of the writes to the shared file and the sending of it.
C34_EachExportDeliversOwnHtml ==
    \A a, b \in DOMAIN exports :
        a # b /\ SameFile(a, b) /\ exports[a].pc = "done" =>
            exports[a].delivered = generate_html_export(exports[a].roadmap)

====
